---- MODULE Spec2Model ----
(***************************************************************************)
(* Accent classifier: the architecture factory of model.py and the         *)
(* training / evaluation run of train.py, as a state machine.              *)
(*                                                                         *)
(* Real-valued quantities are integers: regularisation strengths and       *)
(* dropout rates are in hundredths, losses in tenths.                       *)
(* Model weights are identified by the number of optimizer steps that      *)
(* produced them (0 = the freshly built model).                            *)
(***************************************************************************)
EXTENDS Integers, Sequences, FiniteSets, TLC

VARIABLES architecture, in_shape, num_labels, hyp, pc, failed_at, model,
          weights, epoch, step, train_consumed, val_consumed, test_consumed,
          logs, checkpoints, cb, history, fs, writes, epoch_weights, reports

vars == <<architecture, in_shape, num_labels, hyp, pc, failed_at, model,
          weights, epoch, step, train_consumed, val_consumed, test_consumed,
          logs, checkpoints, cb, history, fs, writes, epoch_weights, reports>>

(***************************************************************************)
(* Bounds of the model.                                                    *)
(***************************************************************************)
MaxEpochs == 3
MaxSteps == 2
MaxDim == 3
MaxLabels == 4

(***************************************************************************)
(* model.py: layer builders.                                               *)
(***************************************************************************)
l1_l2(l1, l2) == [l1 |-> l1, l2 |-> l2]

_conv_layer(filters, kernel_sz) ==
  [kind |-> "Conv2D", filters |-> filters, kernel_size |-> kernel_sz,
   padding |-> "same", activation |-> "selu",
   kernel_initializer |-> "LecunNormal",
   kernel_regularizer |-> l1_l2(2, 3)]

_lstm_layer(units, ret_seq) ==
  [kind |-> "LSTM", units |-> units, return_sequences |-> ret_seq,
   kernel_regularizer |-> l1_l2(2, 3),
   recurrent_regularizer |-> l1_l2(2, 3),
   bias_regularizer |-> l1_l2(2, 3),
   dropout |-> 20, recurrent_dropout |-> 40]

\* The assert of line 32 is the guard: an operator outside (avg, max) has no
\* layer.
_global_depth_pool(pool_op) ==
  IF pool_op \in {"avg", "max"}
    THEN [kind |-> "Lambda",
          func |-> IF pool_op = "avg" THEN "reduce_mean" ELSE "reduce_max",
          axis |-> -1,
          name |-> "global_depth_" \o pool_op \o "_pool"]
    ELSE [kind |-> "AssertionError"]

Reshape(target_shape, input_shape) ==
  [kind |-> "Reshape", target_shape |-> target_shape,
   input_shape |-> input_shape]

MaxPool2D(pool_size) == [kind |-> "MaxPool2D", pool_size |-> pool_size]

Bidirectional(layer) == [kind |-> "Bidirectional", layer |-> layer]

Dense(units, activation) ==
  [kind |-> "Dense", units |-> units, activation |-> activation]

Flatten == [kind |-> "Flatten"]

_cnn_layers(shape) ==
  << Reshape(shape \o <<1>>, shape),
     _conv_layer(32, 5),
     MaxPool2D(<<1, 2>>),
     _conv_layer(64, 3),
     MaxPool2D(<<1, 2>>),
     _conv_layer(64, 3),
     _global_depth_pool("max") >>

\* The head sized by the recurrent width instead of the label count.
_lstm_layers_units(labels) ==
  << Bidirectional(_lstm_layer(36, TRUE)),
     Bidirectional(_lstm_layer(36, TRUE)),
     Bidirectional(_lstm_layer(36, FALSE)),
     Dense(36, "softmax") >>

_lstm_layers(labels) ==
  << Bidirectional(_lstm_layer(36, TRUE)),
     Bidirectional(_lstm_layer(36, TRUE)),
     Bidirectional(_lstm_layer(36, FALSE)),
     Dense(labels, "softmax") >>

Sequential(layers, name) == [name |-> name, layers |-> layers]

get_cnn(shape, labels) ==
  Sequential(_cnn_layers(shape) \o <<Flatten, Dense(labels, "softmax")>>,
             "cnn")

get_bilstm(labels) == Sequential(_lstm_layers(labels), "bilstm")

get_cnn_bilstm(shape, labels) ==
  Sequential(_cnn_layers(shape) \o _lstm_layers(labels), "cnn_bilstm")

ArchitectureNames == {"cnn", "bilstm", "cnn_bilstm"}

NoModel == [name |-> "", layers |-> <<>>]

\* util.get_model: the dispatch on the architecture name.
get_model(name, shape, labels) ==
  CASE name = "cnn" -> get_cnn(shape, labels)
    [] name = "bilstm" -> get_bilstm(labels)
    [] name = "cnn_bilstm" -> get_cnn_bilstm(shape, labels)
    [] OTHER -> NoModel

(***************************************************************************)
(* Metric values.  NaN compares false with everything, as IEEE 754 does;   *)
(* PosInf and NegInf are the initial bests of a ModelCheckpoint.           *)
(***************************************************************************)
NaN == -1
PosInf == 1000000
NegInf == -1000000

\* Improvement taken as "not worse": a tie rewrites the checkpoint.
np_less_equal(a, b) == a # NaN /\ b # NaN /\ a <= b

np_less(a, b) == a # NaN /\ b # NaN /\ a < b
np_greater(a, b) == a # NaN /\ b # NaN /\ a > b

\* What an epoch can report.  Only the validation values decide anything.
\* Losses are in tenths (0.7, 0.8, 0.9, or not a number); an accuracy is a
\* fraction, taken at its two extremes.
ValLossValues == {7, 8, 9, NaN}
ValAccuracyValues == {0, 1}
TrainLossValues == {9}
TrainAccuracyValues == {1}

(***************************************************************************)
(* train.py: names, files and callbacks.                                   *)
(***************************************************************************)
tracked_metrics == <<"accuracy">>

\* tracked_metrics + ['loss']
Entries == tracked_metrics \o <<"loss">>

\* The metric left out of the file name: one file for every entry.
checkpoint_path_shared(model_name, met) == model_name \o ".hdf5"

checkpoint_path(model_name, met) == model_name \o "_" \o met \o ".hdf5"
history_path(model_name) == model_name \o "_history.pickle"
plot_path(model_name, metric) == model_name \o "_" \o metric \o ".png"

val_key(met) == "val_" \o met

\* ModelCheckpoint(filepath, monitor=..., save_best_only=True), mode 'auto':
\* a monitor with 'acc' in its name is maximised from -inf, any other is
\* minimised from +inf.
ModelCheckpoint(filepath, monitor) ==
  LET maximise == monitor \in {"val_accuracy", "val_acc"}
  IN [filepath |-> filepath, monitor |-> monitor, save_best_only |-> TRUE,
      monitor_op |-> IF maximise THEN "greater" ELSE "less",
      best |-> IF maximise THEN NegInf ELSE PosInf]

\* save_best_only left off: every epoch saves.
monitor_improved_always(cp, current) == TRUE

monitor_improved(cp, current) ==
  IF cp.monitor_op = "greater" THEN np_greater(current, cp.best)
                               ELSE np_less(current, cp.best)

\* The list comprehension of lines 50-53.
make_checkpoints(model_name) ==
  [i \in 1..Len(Entries) |->
     ModelCheckpoint(checkpoint_path(model_name, Entries[i]),
                     val_key(Entries[i]))]

\* A saved model file: the weights it holds.
Snapshot(w) == [kind |-> "hdf5", weights |-> w]

\* pickle.dump(hist.history, pick)
Pickled(h) == [kind |-> "pickle", data |-> h]

Png(path) == [kind |-> "png", path |-> path]

WriteFile(files, path, content) == (path :> content) @@ files

CountWrite(w, path) ==
  (path :> (IF path \in DOMAIN w THEN w[path] + 1 ELSE 1)) @@ w

EmptyDict == <<>>

\* History.on_epoch_end: for k, v in logs.items():
\*   history.setdefault(k, []).append(v)
history_append(h, l) ==
  [k \in (DOMAIN h) \cup (DOMAIN l) |->
     IF k \in DOMAIN l
       THEN (IF k \in DOMAIN h THEN h[k] ELSE <<>>) \o <<l[k]>>
       ELSE h[k]]

(***************************************************************************)
(* Initial states.                                                         *)
(***************************************************************************)
Hyperparameters ==
  [epochs : 0..MaxEpochs, train_steps : 1..MaxSteps,
   val_steps : 1..MaxSteps, test_steps : 1..MaxSteps]

InitRun ==
  /\ pc = "Initialized"
  /\ failed_at = ""
  /\ model = NoModel
  /\ weights = 0
  /\ epoch = 0
  /\ step = 0
  /\ train_consumed = 0
  /\ val_consumed = 0
  /\ test_consumed = 0
  /\ logs = EmptyDict
  /\ checkpoints = <<>>
  /\ cb = 0
  /\ history = EmptyDict
  /\ fs = EmptyDict
  /\ writes = EmptyDict
  /\ epoch_weights = <<>>
  /\ reports = <<>>

\* A run of train.py: the feature shape and the label count are those of the
\* data set, the architecture is the command line's (the one whose name has
\* another's as a prefix, or a name that is none of the three).
Init ==
  /\ architecture \in {"cnn_bilstm", "other"}
  /\ in_shape = <<MaxDim, MaxDim>>
  /\ num_labels = MaxLabels
  /\ hyp \in Hyperparameters
  /\ InitRun

\* The factory alone: every shape and label count.
InitFactory ==
  /\ architecture \in ArchitectureNames \cup {"other"}
  /\ in_shape \in (1..MaxDim) \X (1..MaxDim)
  /\ num_labels \in 1..MaxLabels
  /\ hyp = [epochs |-> 0, train_steps |-> 1, val_steps |-> 1, test_steps |-> 1]
  /\ InitRun

(***************************************************************************)
(* train(): one action per call or loop iteration.                         *)
(***************************************************************************)
Failure(at) ==
  /\ pc' = "Failed"
  /\ failed_at' = at

\* Line 43-44: model = get_model(architecture, in_shape, len(ACCENTS)).
GetModel ==
  /\ pc = "Initialized"
  /\ IF architecture \in ArchitectureNames
       THEN /\ model' = get_model(architecture, in_shape, num_labels)
            /\ pc' = "Built"
            /\ UNCHANGED failed_at
       ELSE /\ Failure("Initialized")
            /\ UNCHANGED model
  /\ UNCHANGED <<architecture, in_shape, num_labels, hyp, weights, epoch,
                 step, train_consumed, val_consumed, test_consumed, logs,
                 checkpoints, cb, history, fs, writes, epoch_weights, reports>>

\* Lines 45-54: compile, then build the checkpoint callbacks.
Compile ==
  /\ pc = "Built"
  /\ pc' = "Compiled"
  /\ checkpoints' = make_checkpoints(model.name)
  /\ UNCHANGED <<architecture, in_shape, num_labels, hyp, failed_at, model,
                 weights, epoch, step, train_consumed, val_consumed,
                 test_consumed, logs, cb, history, fs, writes, epoch_weights,
                 reports>>

\* The epoch loop entered without looking at the epoch count.
FitBeginNoCheck ==
  /\ pc = "Compiled"
  /\ pc' = "TrainStep"
  /\ step' = 0
  /\ UNCHANGED <<architecture, in_shape, num_labels, hyp, failed_at, model,
                 weights, epoch, train_consumed, val_consumed, test_consumed,
                 logs, checkpoints, cb, history, fs, writes, epoch_weights,
                 reports>>

\* Line 55: model.fit starts; with epochs = 0 the epoch loop has no iteration.
FitBegin ==
  /\ pc = "Compiled"
  /\ pc' = IF hyp.epochs = 0 THEN "FitDone" ELSE "TrainStep"
  /\ step' = 0
  /\ UNCHANGED <<architecture, in_shape, num_labels, hyp, failed_at, model,
                 weights, epoch, train_consumed, val_consumed, test_consumed,
                 logs, checkpoints, cb, history, fs, writes, epoch_weights,
                 reports>>

\* One training batch (steps_per_epoch of them per epoch); the last one of
\* the epoch yields the epoch's training logs.
TrainStep ==
  /\ pc = "TrainStep"
  /\ step < hyp.train_steps
  /\ train_consumed' = train_consumed + 1
  /\ weights' = weights + 1
  /\ IF step + 1 = hyp.train_steps
       THEN /\ \E l \in TrainLossValues, a \in TrainAccuracyValues :
                 logs' = [k \in {"loss", "accuracy"} |->
                            IF k = "loss" THEN l ELSE a]
            /\ pc' = "ValStep"
            /\ step' = 0
       ELSE /\ step' = step + 1
            /\ UNCHANGED <<logs, pc>>
  /\ UNCHANGED <<architecture, in_shape, num_labels, hyp, failed_at, model,
                 epoch, val_consumed, test_consumed, checkpoints, cb, history,
                 fs, writes, epoch_weights, reports>>

\* One validation batch (validation_steps of them at epoch end); the last one
\* yields the val_ logs and the callbacks' on_epoch_end starts.
ValStep ==
  /\ pc = "ValStep"
  /\ step < hyp.val_steps
  /\ val_consumed' = val_consumed + 1
  /\ IF step + 1 = hyp.val_steps
       THEN /\ \E l \in ValLossValues, a \in ValAccuracyValues :
                 logs' = [k \in DOMAIN logs \cup {"val_loss", "val_accuracy"} |->
                            CASE k = "val_loss" -> l
                              [] k = "val_accuracy" -> a
                              [] OTHER -> logs[k]]
            /\ pc' = "Callbacks"
            /\ step' = 0
            /\ cb' = 1
       ELSE /\ step' = step + 1
            /\ UNCHANGED <<logs, pc, cb>>
  /\ UNCHANGED <<architecture, in_shape, num_labels, hyp, failed_at, model,
                 weights, epoch, train_consumed, test_consumed, checkpoints,
                 history, fs, writes, epoch_weights, reports>>

\* ModelCheckpoint.on_epoch_end with save_best_only: save and record the
\* monitored value when it improved on the best, else nothing.
CheckpointOnEpochEnd ==
  /\ pc = "Callbacks"
  /\ cb \in 1..Len(checkpoints)
  /\ LET cp == checkpoints[cb]
         current == logs[cp.monitor]
     IN IF monitor_improved(cp, current)
          THEN /\ checkpoints' = [checkpoints EXCEPT ![cb].best = current]
               /\ fs' = WriteFile(fs, cp.filepath, Snapshot(weights))
               /\ writes' = CountWrite(writes, cp.filepath)
          ELSE UNCHANGED <<checkpoints, fs, writes>>
  /\ IF cb = Len(checkpoints)
       THEN pc' = "HistoryCallback" /\ cb' = 0
       ELSE cb' = cb + 1 /\ UNCHANGED pc
  /\ UNCHANGED <<architecture, in_shape, num_labels, hyp, failed_at, model,
                 weights, epoch, step, train_consumed, val_consumed,
                 test_consumed, logs, history, epoch_weights, reports>>

\* History.on_epoch_end closes the epoch; the loop goes on or fit returns.
HistoryOnEpochEnd ==
  /\ pc = "HistoryCallback"
  /\ history' = history_append(history, logs)
  /\ epoch' = epoch + 1
  /\ epoch_weights' = Append(epoch_weights, weights)
  /\ logs' = EmptyDict
  /\ pc' = IF epoch + 1 = hyp.epochs THEN "FitDone" ELSE "TrainStep"
  /\ UNCHANGED <<architecture, in_shape, num_labels, hyp, failed_at, model,
                 weights, step, train_consumed, val_consumed, test_consumed,
                 checkpoints, cb, fs, writes, reports>>

\* Lines 60-62: dump(hist.history, pick).
SaveHistory ==
  /\ pc = "FitDone"
  /\ fs' = WriteFile(fs, history_path(model.name), Pickled(history))
  /\ writes' = CountWrite(writes, history_path(model.name))
  /\ pc' = "HistorySaved"
  /\ UNCHANGED <<architecture, in_shape, num_labels, hyp, failed_at, model,
                 weights, epoch, step, train_consumed, val_consumed,
                 test_consumed, logs, checkpoints, cb, history, epoch_weights,
                 reports>>

\* plot_history: one figure per entry, in order; history[metric] of a key the
\* history lacks raises KeyError and ends the run.
RECURSIVE plotted(_, _, _)
plotted(h, name, i) ==
  IF i > Len(Entries) \/ ~ {Entries[i], val_key(Entries[i])} \subseteq DOMAIN h
    THEN {}
    ELSE {plot_path(name, Entries[i])} \cup plotted(h, name, i + 1)

PlotHistory ==
  /\ pc = "HistorySaved"
  /\ LET done == plotted(history, model.name, 1)
         complete == Cardinality(done) = Len(Entries)
     IN /\ fs' = [p \in DOMAIN fs \cup done |->
                    IF p \in done THEN Png(p) ELSE fs[p]]
        /\ writes' = [p \in DOMAIN writes \cup done |->
                        IF p \in done
                          THEN (IF p \in DOMAIN writes THEN writes[p] + 1 ELSE 1)
                          ELSE writes[p]]
        /\ IF complete
             THEN pc' = "Evaluating" /\ UNCHANGED failed_at
             ELSE Failure("HistorySaved")
  /\ UNCHANGED <<architecture, in_shape, num_labels, hyp, model, weights,
                 epoch, step, train_consumed, val_consumed, test_consumed,
                 logs, checkpoints, cb, history, epoch_weights, reports>>

\* The evaluation without the load: the weights the model holds are used.
EvaluateNoLoad ==
  /\ pc = "Evaluating"
  /\ LET i == Len(reports) + 1
         met == Entries[i]
     IN /\ test_consumed' = test_consumed + hyp.test_steps
        /\ reports' = Append(reports,
                             [met |-> met, weights |-> weights,
                              steps |-> hyp.test_steps])
        /\ pc' = IF i = Len(Entries) THEN "Finished" ELSE "Evaluating"
  /\ UNCHANGED <<architecture, in_shape, num_labels, hyp, failed_at, model,
                 weights, epoch, step, train_consumed, val_consumed, logs,
                 checkpoints, cb, history, fs, writes, epoch_weights>>

\* Lines 66-69, one iteration: load_weights of the entry's file, which raises
\* when the file is absent or unreadable, then evaluate over test_steps
\* batches.
Evaluate ==
  /\ pc = "Evaluating"
  /\ LET i == Len(reports) + 1
         met == Entries[i]
         path == checkpoint_path(model.name, met)
     IN \E readable \in BOOLEAN :
          IF path \in DOMAIN fs /\ readable
            THEN /\ weights' = fs[path].weights
                 /\ test_consumed' = test_consumed + hyp.test_steps
                 /\ reports' = Append(reports,
                                      [met |-> met, weights |-> fs[path].weights,
                                       steps |-> hyp.test_steps])
                 /\ pc' = IF i = Len(Entries) THEN "Finished" ELSE "Evaluating"
                 /\ UNCHANGED failed_at
            ELSE /\ Failure("LoadWeights")
                 /\ UNCHANGED <<weights, test_consumed, reports>>
  /\ UNCHANGED <<architecture, in_shape, num_labels, hyp, model, epoch, step,
                 train_consumed, val_consumed, logs, checkpoints, cb, history,
                 fs, writes, epoch_weights>>

\* An error raised by the call about to run (compilation, a batch stream, a
\* checkpoint or history write, plotting, evaluation): nothing is caught.
Failable ==
  {"Built", "Compiled", "TrainStep", "ValStep", "Callbacks", "FitDone",
   "HistorySaved", "Evaluating"}

\* An error path that still dumps what history there is.
FailSavingHistory ==
  /\ pc \in Failable
  /\ Failure(pc)
  /\ fs' = WriteFile(fs, history_path(model.name), Pickled(history))
  /\ UNCHANGED <<architecture, in_shape, num_labels, hyp, model, weights,
                 epoch, step, train_consumed, val_consumed, test_consumed,
                 logs, checkpoints, cb, history, writes, epoch_weights,
                 reports>>

Fail ==
  /\ pc \in Failable
  /\ Failure(pc)
  /\ UNCHANGED <<architecture, in_shape, num_labels, hyp, model, weights,
                 epoch, step, train_consumed, val_consumed, test_consumed,
                 logs, checkpoints, cb, history, fs, writes, epoch_weights,
                 reports>>

Next ==
  \/ GetModel
  \/ Compile
  \/ FitBegin
  \/ TrainStep
  \/ ValStep
  \/ CheckpointOnEpochEnd
  \/ HistoryOnEpochEnd
  \/ SaveHistory
  \/ PlotHistory
  \/ Evaluate
  \/ Fail

Spec == Init /\ [][Next]_vars

NextFactory == GetModel

SpecFactory == InitFactory /\ [][NextFactory]_vars

TypeOK == pc \in {"Initialized", "Built", "Compiled", "TrainStep", "ValStep",
                  "Callbacks", "HistoryCallback", "FitDone", "HistorySaved",
                  "Evaluating", "Finished", "Failed"}

(***************************************************************************)
(* Properties.                                                             *)
(***************************************************************************)
CheckpointFile(met) == checkpoint_path(model.name, met)
HistoryFile == history_path(model.name)
WriteCount(w, path) == IF path \in DOMAIN w THEN w[path] ELSE 0
SameFile(path) ==
  IF path \in DOMAIN fs THEN path \in DOMAIN fs' /\ fs'[path] = fs[path]
                        ELSE path \notin DOMAIN fs'

\* Strictly lower for loss, strictly higher for accuracy; a NaN is no
\* improvement on anything.
StrictlyBetter(met, v, b) ==
  /\ v # NaN
  /\ b # NaN
  /\ IF met = "loss" THEN v < b ELSE v > b

\* C1: at an epoch boundary, an entry's checkpoint is rewritten with the
\* current weights and its recorded best updated if and only if the epoch's
\* validation value strictly improves on the recorded best; otherwise the
\* file and the recorded best stay as they are.
C1_RewrittenIffStrictlyBetter ==
  [][(pc = "Callbacks" /\ pc' # "Failed") =>
       LET met == Entries[cb]
           path == CheckpointFile(met)
           v == logs[val_key(met)]
           b == checkpoints[cb].best
       IN IF StrictlyBetter(met, v, b)
            THEN /\ WriteCount(writes', path) = WriteCount(writes, path) + 1
                 /\ path \in DOMAIN fs'
                 /\ fs'[path] = Snapshot(weights)
                 /\ checkpoints'[cb].best = v
            ELSE /\ WriteCount(writes', path) = WriteCount(writes, path)
                 /\ SameFile(path)
                 /\ checkpoints'[cb].best = b]_vars

\* Two epochs with the same validation loss: one write, of the first epoch.
C1_Witness ==
  /\ pc = "TrainStep"
  /\ epoch = 2
  /\ history["val_loss"] = <<8, 8>>
  /\ WriteCount(writes, CheckpointFile("loss")) = 1
  /\ fs[CheckpointFile("loss")] = Snapshot(epoch_weights[1])

ValidationValues(met) ==
  IF val_key(met) \in DOMAIN history THEN history[val_key(met)] ELSE <<>>

Comparable(seq) == {k \in 1..Len(seq) : seq[k] # NaN}

NotWorse(met, v, w) == IF met = "loss" THEN v <= w ELSE v >= w

\* The earliest epoch whose value is the best of the comparable ones.
BestEpoch(met, seq) ==
  CHOOSE k \in Comparable(seq) :
    \A j \in Comparable(seq) :
      /\ NotWorse(met, seq[k], seq[j])
      /\ seq[j] = seq[k] => k <= j

EpochClosed ==
  /\ pc \notin {"Callbacks", "HistoryCallback"}
  /\ ~ (pc = "Failed" /\ failed_at = "Callbacks")

\* C2: between epochs and after training, each entry's checkpoint holds
\* exactly the weights of the end of the earliest epoch that attained the
\* best validation value so far (minimum for loss, maximum for accuracy); an
\* entry none of whose values compares has no checkpoint.
C2_CheckpointIsEarliestBest ==
  EpochClosed =>
    \A i \in 1..Len(Entries) :
      LET met == Entries[i]
          seq == ValidationValues(met)
          path == CheckpointFile(met)
      IN IF Comparable(seq) = {}
           THEN path \notin DOMAIN fs
           ELSE /\ path \in DOMAIN fs
                /\ fs[path] = Snapshot(epoch_weights[BestEpoch(met, seq)])

\* The scenario [0.9, 0.7, 0.8]: the loss checkpoint is epoch 2's.
C2_Witness ==
  /\ pc = "FitDone"
  /\ ValidationValues("loss") = <<9, 7, 8>>
  /\ fs[CheckpointFile("loss")] = Snapshot(epoch_weights[2])
  /\ epoch_weights[2] # epoch_weights[3]

\* C3: a run executes the epochs one after the other, each with exactly
\* train_steps training batches and then exactly val_steps validation
\* batches; the checkpoint decisions of an epoch are taken with its validation
\* pass complete; a run that got through training ran exactly `epochs` epochs.
C3_EpochSchedule ==
  /\ pc = "TrainStep" =>
       /\ epoch < hyp.epochs
       /\ step < hyp.train_steps
       /\ train_consumed = epoch * hyp.train_steps + step
       /\ val_consumed = epoch * hyp.val_steps
  /\ pc = "ValStep" =>
       /\ epoch < hyp.epochs
       /\ step < hyp.val_steps
       /\ train_consumed = (epoch + 1) * hyp.train_steps
       /\ val_consumed = epoch * hyp.val_steps + step
  /\ pc \in {"Callbacks", "HistoryCallback"} =>
       /\ epoch < hyp.epochs
       /\ train_consumed = (epoch + 1) * hyp.train_steps
       /\ val_consumed = (epoch + 1) * hyp.val_steps
  /\ pc \in {"FitDone", "HistorySaved", "Evaluating", "Finished"} =>
       /\ epoch = hyp.epochs
       /\ train_consumed = hyp.epochs * hyp.train_steps
       /\ val_consumed = hyp.epochs * hyp.val_steps
  /\ Len(epoch_weights) = epoch
  /\ \A e \in 1..epoch : epoch_weights[e] = e * hyp.train_steps

C3_Witness ==
  /\ pc = "Finished"
  /\ hyp.epochs = 3
  /\ hyp.train_steps = 2
  /\ hyp.val_steps = 1
  /\ train_consumed = 6
  /\ val_consumed = 3

HistoryKeys == {"loss", "accuracy", "val_loss", "val_accuracy"}

\* C4: the history is persisted once, after all the epochs, and the persisted
\* mapping has, for loss and for every tracked metric, a train and a
\* validation sequence of length `epochs`.
C4_HistoryPersistedComplete ==
  /\ HistoryFile \in DOMAIN fs =>
       /\ WriteCount(writes, HistoryFile) = 1
       /\ epoch = hyp.epochs
       /\ \A k \in HistoryKeys :
            /\ k \in DOMAIN fs[HistoryFile].data
            /\ Len(fs[HistoryFile].data[k]) = hyp.epochs
  /\ pc \in {"HistorySaved", "Evaluating", "Finished"} =>
       HistoryFile \in DOMAIN fs

BeforeHistory ==
  {"Initialized", "Built", "Compiled", "TrainStep", "ValStep", "Callbacks"}

Plots == {plot_path(model.name, Entries[i]) : i \in 1..Len(Entries)}

\* C5 as stated: a run that failed before fit returned its history has
\* produced no artifact at all and evaluated nothing.
C5_NoArtifactAtAll ==
  (pc = "Failed" /\ failed_at \in BeforeHistory) =>
    /\ DOMAIN fs = {}
    /\ reports = <<>>

\* C5: a run that failed before fit returned its history is over, has
\* persisted no history, plotted and evaluated nothing; the files it leaves
\* are the checkpoints written at epoch boundaries, none when the error came
\* before the first epoch's checkpoint decisions.
C5_FailedRunLeavesOnlyCheckpoints ==
  (pc = "Failed" /\ failed_at \in BeforeHistory) =>
    /\ ~ ENABLED Next
    /\ HistoryFile \notin DOMAIN fs
    /\ Plots \cap DOMAIN fs = {}
    /\ reports = <<>>
    /\ test_consumed = 0
    /\ DOMAIN fs \subseteq {CheckpointFile(Entries[i]) : i \in 1..Len(Entries)}
    /\ (epoch = 0 /\ failed_at # "Callbacks") => DOMAIN fs = {}

\* A batch stream fails in the second epoch: the first epoch's checkpoints
\* are there.
C5_Witness ==
  /\ pc = "Failed"
  /\ failed_at = "TrainStep"
  /\ epoch = 1
  /\ CheckpointFile("loss") \in DOMAIN fs
  /\ CheckpointFile("accuracy") \in DOMAIN fs

Reported == {reports[k].met : k \in 1..Len(reports)}

\* C6: when the load of one entry's checkpoint fails, every other entry is
\* still reported.
C6_EvaluationsIndependent ==
  (pc = "Failed" /\ failed_at = "LoadWeights") =>
    \A i \in 1..Len(Entries) :
      i # Len(reports) + 1 => Entries[i] \in Reported

\* C7: every report is of one entry, in order, computed with the weights of
\* that entry's own checkpoint over exactly test_steps test batches; a run
\* that finished has exactly one report per entry (two).
C7_OneReportPerCheckpoint ==
  /\ Len(reports) <= Len(Entries)
  /\ test_consumed = Len(reports) * hyp.test_steps
  /\ \A k \in 1..Len(reports) :
       /\ reports[k].met = Entries[k]
       /\ reports[k].steps = hyp.test_steps
       /\ CheckpointFile(Entries[k]) \in DOMAIN fs
       /\ Snapshot(reports[k].weights) = fs[CheckpointFile(Entries[k])]
  /\ reports # <<>> => weights = reports[Len(reports)].weights
  /\ pc = "Finished" =>
       /\ Len(reports) = Len(Entries)
       /\ Reported = {"accuracy", "loss"}
       /\ Cardinality(Reported) = 2

\* The two bests are of different epochs, neither the last.
C7_Witness ==
  /\ pc = "Finished"
  /\ hyp.epochs = 3
  /\ reports[1].weights = epoch_weights[1]
  /\ reports[2].weights = epoch_weights[2]
  /\ epoch_weights[3] \notin {reports[1].weights, reports[2].weights}

Kinds(layers) == [i \in 1..Len(layers) |-> layers[i].kind]

ConvolutionalSchema ==
  <<"Reshape", "Conv2D", "MaxPool2D", "Conv2D", "MaxPool2D", "Conv2D", "Lambda">>

RecurrentSchema == <<"Bidirectional", "Bidirectional", "Bidirectional", "Dense">>

Schema(name) ==
  CASE name = "cnn" -> ConvolutionalSchema \o <<"Flatten", "Dense">>
    [] name = "bilstm" -> RecurrentSchema
    [] name = "cnn_bilstm" -> ConvolutionalSchema \o RecurrentSchema

ExpectedCount(name) ==
  CASE name = "cnn" -> 9
    [] name = "bilstm" -> 4
    [] name = "cnn_bilstm" -> 11

\* C8: a built model carries its architecture's name, its layers follow the
\* architecture's schema (9, 4 and 11 layers), the recurrent blocks return
\* sequences except the third, and the last layer is a softmax dense layer as
\* wide as the label count.
C8_ArchitectureSchema ==
  pc = "Built" =>
    LET layers == model.layers
        n == Len(layers)
    IN /\ model.name = architecture
       /\ n = ExpectedCount(architecture)
       /\ Kinds(layers) = Schema(architecture)
       /\ layers[n] = [kind |-> "Dense", units |-> num_labels,
                       activation |-> "softmax"]
       /\ architecture # "bilstm" =>
            /\ layers[1].target_shape = in_shape \o <<1>>
            /\ layers[7].name = "global_depth_max_pool"
       /\ architecture # "cnn" =>
            /\ layers[n - 3].layer.return_sequences
            /\ layers[n - 2].layer.return_sequences
            /\ ~ layers[n - 1].layer.return_sequences
            /\ \A i \in (n - 3)..(n - 1) : layers[i].layer.units = 36

C8_Witness ==
  /\ pc = "Built"
  /\ architecture = "cnn_bilstm"
  /\ in_shape = <<2, 3>>
  /\ num_labels = 3
  /\ Len(model.layers) = 11
  /\ model.layers[11].units = 3

\* C9: when the evaluation starts, every entry's checkpoint has been written
\* by this run.
C9_CheckpointsWrittenBeforeEvaluation ==
  pc = "Evaluating" =>
    \A i \in 1..Len(Entries) :
      /\ WriteCount(writes, CheckpointFile(Entries[i])) >= 1
      /\ CheckpointFile(Entries[i]) \in DOMAIN fs

AllPaths ==
  {<<"checkpoint", a, Entries[i]>> : a \in ArchitectureNames, i \in 1..Len(Entries)}
    \cup {<<"history", a, "">> : a \in ArchitectureNames}

PathOf(t) ==
  IF t[1] = "checkpoint" THEN checkpoint_path(t[2], t[3]) ELSE history_path(t[2])

PathsDistinct == \A s, t \in AllPaths : s # t => PathOf(s) # PathOf(t)

\* C10: the checkpoint paths of the entries and the history path, over the
\* three architectures, are pairwise distinct, and an entry's checkpoint
\* decision changes neither another entry's file or recorded best nor the
\* history file.
C10_RecordsIndependent ==
  [][/\ PathsDistinct
     /\ pc = "Callbacks" =>
          /\ \A j \in 1..Len(Entries) :
               j # cb => /\ SameFile(CheckpointFile(Entries[j]))
                         /\ checkpoints'[j] = checkpoints[j]
          /\ SameFile(HistoryFile)
          /\ checkpoints'[cb].filepath = CheckpointFile(Entries[cb])]_vars

\* The loss checkpoint rewritten in the second epoch, the accuracy one still
\* the first epoch's.
C10_Witness ==
  /\ pc = "HistoryCallback"
  /\ epoch = 1
  /\ {CheckpointFile("accuracy"), CheckpointFile("loss")} \subseteq DOMAIN fs
  /\ fs[CheckpointFile("accuracy")] = Snapshot(epoch_weights[1])
  /\ fs[CheckpointFile("loss")] = Snapshot(weights)
  /\ WriteCount(writes, CheckpointFile("loss")) = 2
  /\ WriteCount(writes, CheckpointFile("accuracy")) = 1

====
